---------------------------- MODULE Spec2Model ----------------------------
(***************************************************************************)
(* Big tables (dp-core/vr_btable.c): a two level table that backs one      *)
(* logical byte range with several page allocations ("partitions").        *)
(*                                                                         *)
(* The model follows vr_btable_alloc statement by statement (one action    *)
(* per stretch of code between two calls into the page allocator),         *)
(* vr_btable_free, vr_btable_get_partition and vr_btable_get_address.      *)
(* The page allocator (vr_page_alloc / vr_page_free) and the structure     *)
(* allocator (vr_zalloc / vr_free) are external: each request may fail,    *)
(* and every call made to them is logged.                                  *)
(*                                                                         *)
(* Sizes are scaled down: an unsigned int has UINT_BITS bits, and the      *)
(* three limits of vr_btable.h keep their order                            *)
(*   VR_SINGLE_ALLOC_LIMIT < VR_KNOWN_BIG_MEM_LIMIT < 2^UINT_BITS.         *)
(***************************************************************************)
EXTENDS Integers, Sequences, FiniteSets

\* ------------------------------------------------------------------ sizes

\* width of "unsigned int" (32 in the build; scaled)
UINT_BITS == 5

UINT_MOD == 2 ^ UINT_BITS

\* the limits of vr_btable.h, scaled
VR_SINGLE_ALLOC_LIMIT == 4

VR_KNOWN_BIG_MEM_LIMIT == 16

VR_MAX_BTABLE_ENTRIES == 3

\* the arguments a caller passes to vr_btable_alloc in the model
MaxEntries == 12

MaxEntrySize == 5

NULL == 0

Slots == 0 .. (VR_MAX_BTABLE_ENTRIES - 1)

\* ------------------------------------------------------------------ state

VARIABLES
    pc,           \* where the caller / vr_btable_alloc stands
    num_entries,  \* vr_btable_alloc argument
    entry_size,   \* vr_btable_alloc argument
    total_mem,    \* vr_btable_alloc local (uint64_t)
    num_parts,    \* vr_btable_alloc local
    remainder,    \* vr_btable_alloc local
    i,            \* vr_btable_alloc local
    offset,       \* vr_btable_alloc local
    table,        \* vr_btable_alloc local: NULL or the struct vr_btable
    heap,         \* the contents of the struct vr_btable
    ret,          \* what vr_btable_alloc returned
    page_log,     \* every vr_page_alloc request: <<size, handle or NULL>>
    free_log,     \* every vr_page_free and vr_free call, in order
    meta_allocs,  \* successful vr_zalloc calls
    oob,          \* a slot index >= VR_MAX_BTABLE_ENTRIES was written
    last_op,      \* the last operation the caller ran
    part_arg,     \* index passed to the last vr_btable_get_partition
    part_res,     \* result of the last vr_btable_get_partition
    addr_arg,     \* offset passed to the last vr_btable_get_address
    addr_res      \* result of the last vr_btable_get_address

locals == <<num_entries, entry_size, total_mem, num_parts, remainder, i, offset>>

provider == <<page_log, free_log, meta_allocs>>

readers == <<part_arg, part_res, addr_arg, addr_res>>

vars == <<pc, locals, table, heap, ret, provider, oob, last_op, readers>>

\* ------------------------------------------------------------ the struct

\* vr_zalloc: every field zero
ZeroTable ==
    [ vb_mem        |-> [k \in Slots |-> NULL],
      vb_table_info |-> [k \in Slots |-> [vb_mem_size |-> 0, vb_offset |-> 0]],
      vb_partitions |-> 0,
      vb_entries    |-> 0,
      vb_esize      |-> 0 ]

\* pointers: a partition reference is a slot of vb_table_info, an address
\* is a block handle and a byte offset into the block
NullPart == [null |-> TRUE, slot |-> 0]

NullAddr == [block |-> NULL, off |-> 0]

\* the handle the page allocator hands out next (handles are never reused
\* within one run)
SuccessfulAllocs(log) == {k \in 1 .. Len(log) : log[k][2] # NULL}

NewHandle(log) == Cardinality(SuccessfulAllocs(log)) + 1

\* table->vb_mem[idx] = h, with the array bound made visible
StoreMem(t, idx, h) ==
    IF idx \in Slots THEN [t EXCEPT !.vb_mem[idx] = h] ELSE t

\* a descriptor written without its size
StoreInfo_NoSize(t, idx, size, off) ==
    IF idx \in Slots
    THEN [t EXCEPT !.vb_table_info[idx] = [vb_mem_size |-> 0, vb_offset |-> off]]
    ELSE t

\* table->vb_table_info[idx] = {size, off}
StoreInfo(t, idx, size, off) ==
    IF idx \in Slots
    THEN [t EXCEPT !.vb_table_info[idx] = [vb_mem_size |-> size, vb_offset |-> off]]
    ELSE t

\* ------------------------------------------------- vr_btable_get_partition

\* a bound check that is off by one
get_partition_OffByOne(partition) ==
    IF partition > VR_MAX_BTABLE_ENTRIES
    THEN NullPart
    ELSE [null |-> FALSE, slot |-> partition]

vr_btable_get_partition(partition) ==
    IF partition >= VR_MAX_BTABLE_ENTRIES
    THEN NullPart
    ELSE [null |-> FALSE, slot |-> partition]

\* --------------------------------------------------- vr_btable_get_address

\* a scan whose range test takes the end of the partition in ("<=")
RECURSIVE GetAddressFrom_EndInclusive(_, _, _)
GetAddressFrom_EndInclusive(t, off, k) ==
    IF k >= t.vb_partitions
    THEN NullAddr
    ELSE LET partition == vr_btable_get_partition(k) IN
         IF partition.null
         THEN NullAddr
         ELSE LET p == t.vb_table_info[partition.slot] IN
              IF off >= p.vb_offset
                 /\ off <= (p.vb_offset + p.vb_mem_size) % UINT_MOD
              THEN [block |-> t.vb_mem[k], off |-> off - p.vb_offset]
              ELSE GetAddressFrom_EndInclusive(t, off, k + 1)

\* the for loop from index k on
RECURSIVE GetAddressFrom(_, _, _)
GetAddressFrom(t, off, k) ==
    IF k >= t.vb_partitions
    THEN NullAddr
    ELSE LET partition == vr_btable_get_partition(k) IN
         IF partition.null
         THEN NullAddr
         ELSE LET p == t.vb_table_info[partition.slot] IN
              IF off >= p.vb_offset
                 /\ off < (p.vb_offset + p.vb_mem_size) % UINT_MOD
              THEN [block |-> t.vb_mem[k], off |-> off - p.vb_offset]
              ELSE GetAddressFrom(t, off, k + 1)

vr_btable_get_address(t, off) == GetAddressFrom(t, off, 0)

\* ----------------------------------------------------------- vr_btable_free

\* the vr_page_free calls of the loop over all VR_MAX_BTABLE_ENTRIES slots,
\* from slot k on
RECURSIVE FreeCallsFrom(_, _)
FreeCallsFrom(t, k) ==
    IF k >= VR_MAX_BTABLE_ENTRIES
    THEN << >>
    ELSE IF t.vb_mem[k] # NULL
         THEN << [fn |-> "vr_page_free", ptr |-> t.vb_mem[k],
                  size |-> t.vb_table_info[k].vb_mem_size] >>
              \o FreeCallsFrom(t, k + 1)
         ELSE FreeCallsFrom(t, k + 1)

\* a loop that frees every block with the size of a full chunk
FreeCalls_FullSize(t) ==
    [k \in 1 .. Len(FreeCallsFrom(t, 0)) |->
        [FreeCallsFrom(t, 0)[k] EXCEPT !.size = VR_SINGLE_ALLOC_LIMIT]]

FreeCalls(t) == FreeCallsFrom(t, 0)

\* vr_btable_free(tp): the calls it makes, the blocks first, vr_free last
vr_btable_free(tp) ==
    IF tp = NULL
    THEN UNCHANGED free_log
    ELSE free_log' = free_log \o FreeCalls(heap)
                        \o << [fn |-> "vr_free", ptr |-> tp, size |-> 0] >>

\* ---------------------------------------------------------------- actions

Init ==
    /\ pc = "idle"
    /\ num_entries = 0
    /\ entry_size = 0
    /\ total_mem = 0
    /\ num_parts = 0
    /\ remainder = 0
    /\ i = 0
    /\ offset = 0
    /\ table = NULL
    /\ heap = ZeroTable
    /\ ret = NULL
    /\ page_log = << >>
    /\ free_log = << >>
    /\ meta_allocs = 0
    /\ oob = FALSE
    /\ last_op = "none"
    /\ part_arg = 0
    /\ part_res = NullPart
    /\ addr_arg = 0
    /\ addr_res = NullAddr

\* vr_btable_alloc, lines 84-98: the product, the size ceiling, the struct
AllocEnter(n, s) ==
    /\ pc = "idle"
    /\ num_entries' = n
    /\ entry_size' = s
    /\ i' = 0
    /\ offset' = 0
    /\ last_op' = "alloc"
    \* unsigned int * unsigned int, then widened to uint64_t
    /\ total_mem' = (n * s) % UINT_MOD
    /\ \/ /\ total_mem' > VR_KNOWN_BIG_MEM_LIMIT
          /\ ret' = NULL
          /\ pc' = "returned"
          /\ UNCHANGED <<table, heap, meta_allocs>>
       \/ /\ total_mem' <= VR_KNOWN_BIG_MEM_LIMIT
          /\ \/ /\ table' = 1          \* vr_zalloc succeeds
                /\ heap' = ZeroTable
                /\ meta_allocs' = meta_allocs + 1
                /\ pc' = "plan"
                /\ UNCHANGED ret
             \/ /\ table' = NULL       \* vr_zalloc fails
                /\ ret' = NULL
                /\ pc' = "returned"
                /\ UNCHANGED <<heap, meta_allocs>>
    /\ UNCHANGED <<num_parts, remainder, page_log, free_log, oob, readers>>

\* a plan without the capacity test of lines 102-103
AllocPlan_NoCapacityCheck ==
    /\ pc = "plan"
    /\ num_parts' = total_mem \div VR_SINGLE_ALLOC_LIMIT
    /\ remainder' = total_mem % VR_SINGLE_ALLOC_LIMIT
    /\ \/ /\ num_parts' # 0
          /\ VR_SINGLE_ALLOC_LIMIT % entry_size # 0
          /\ ret' = NULL
          /\ pc' = "returned"
       \/ /\ num_parts' # 0 => VR_SINGLE_ALLOC_LIMIT % entry_size = 0
          /\ pc' = "full"
          /\ UNCHANGED ret
    /\ UNCHANGED <<num_entries, entry_size, total_mem, i, offset, table, heap,
                   provider, oob, last_op, readers>>

\* a plan without the divisibility test of lines 105-113
AllocPlan_NoAlignmentCheck ==
    /\ pc = "plan"
    /\ num_parts' = total_mem \div VR_SINGLE_ALLOC_LIMIT
    /\ remainder' = total_mem % VR_SINGLE_ALLOC_LIMIT
    /\ \/ /\ num_parts' + (IF remainder' # 0 THEN 1 ELSE 0) > VR_MAX_BTABLE_ENTRIES
          /\ ret' = NULL
          /\ pc' = "returned"
       \/ /\ num_parts' + (IF remainder' # 0 THEN 1 ELSE 0) <= VR_MAX_BTABLE_ENTRIES
          /\ pc' = "full"
          /\ UNCHANGED ret
    /\ UNCHANGED <<num_entries, entry_size, total_mem, i, offset, table, heap,
                   provider, oob, last_op, readers>>

\* vr_btable_alloc, lines 100-113: the partition plan and its two checks
AllocPlan ==
    /\ pc = "plan"
    /\ num_parts' = total_mem \div VR_SINGLE_ALLOC_LIMIT
    /\ remainder' = total_mem % VR_SINGLE_ALLOC_LIMIT
    /\ \/ /\ num_parts' + (IF remainder' # 0 THEN 1 ELSE 0) > VR_MAX_BTABLE_ENTRIES
          /\ ret' = NULL
          /\ pc' = "returned"
       \/ /\ num_parts' + (IF remainder' # 0 THEN 1 ELSE 0) <= VR_MAX_BTABLE_ENTRIES
          /\ num_parts' # 0
          /\ VR_SINGLE_ALLOC_LIMIT % entry_size # 0
          /\ ret' = NULL
          /\ pc' = "returned"
       \/ /\ num_parts' + (IF remainder' # 0 THEN 1 ELSE 0) <= VR_MAX_BTABLE_ENTRIES
          /\ num_parts' # 0 => VR_SINGLE_ALLOC_LIMIT % entry_size = 0
          /\ pc' = "full"
          /\ UNCHANGED ret
    /\ UNCHANGED <<num_entries, entry_size, total_mem, i, offset, table, heap,
                   provider, oob, last_op, readers>>

\* a loop that leaves with "break" when a request fails, and so goes on to
\* the remainder
AllocFull_BreakOnFailure ==
    /\ pc = "full"
    /\ num_parts # 0
    /\ i < num_parts
    /\ \/ /\ page_log' = Append(page_log,
                                <<VR_SINGLE_ALLOC_LIMIT, NewHandle(page_log)>>)
          /\ heap' = StoreInfo(StoreMem(heap, i, NewHandle(page_log)), i,
                               VR_SINGLE_ALLOC_LIMIT, offset)
          /\ oob' = (oob \/ i \notin Slots)
          /\ offset' = (offset + VR_SINGLE_ALLOC_LIMIT) % UINT_MOD
          /\ i' = i + 1
          /\ UNCHANGED pc
       \/ /\ page_log' = Append(page_log, <<VR_SINGLE_ALLOC_LIMIT, NULL>>)
          /\ heap' = StoreMem(heap, i, NULL)
          /\ oob' = (oob \/ i \notin Slots)
          /\ pc' = "remainder"
          /\ UNCHANGED <<offset, i>>
    /\ UNCHANGED <<num_entries, entry_size, total_mem, num_parts, remainder,
                   table, ret, free_log, meta_allocs, last_op, readers>>

\* a loop that forgets "offset += vb_mem_size" (line 122)
AllocFull_NoOffsetAdvance ==
    /\ pc = "full"
    /\ num_parts # 0
    /\ i < num_parts
    /\ \/ /\ page_log' = Append(page_log,
                                <<VR_SINGLE_ALLOC_LIMIT, NewHandle(page_log)>>)
          /\ heap' = StoreInfo(StoreMem(heap, i, NewHandle(page_log)), i,
                               VR_SINGLE_ALLOC_LIMIT, offset)
          /\ oob' = (oob \/ i \notin Slots)
          /\ i' = i + 1
          /\ UNCHANGED <<pc, offset>>
       \/ /\ page_log' = Append(page_log, <<VR_SINGLE_ALLOC_LIMIT, NULL>>)
          /\ heap' = StoreMem(heap, i, NULL)
          /\ oob' = (oob \/ i \notin Slots)
          /\ pc' = "exit_alloc"
          /\ UNCHANGED <<offset, i>>
    /\ UNCHANGED <<num_entries, entry_size, total_mem, num_parts, remainder,
                   table, ret, free_log, meta_allocs, last_op, readers>>

\* vr_btable_alloc, lines 116-123: one turn of the loop over the full chunks
AllocFull ==
    /\ pc = "full"
    /\ num_parts # 0
    /\ i < num_parts
    /\ \/ /\ page_log' = Append(page_log,
                                <<VR_SINGLE_ALLOC_LIMIT, NewHandle(page_log)>>)
          /\ heap' = StoreInfo(StoreMem(heap, i, NewHandle(page_log)), i,
                               VR_SINGLE_ALLOC_LIMIT, offset)
          /\ oob' = (oob \/ i \notin Slots)
          /\ offset' = (offset + VR_SINGLE_ALLOC_LIMIT) % UINT_MOD
          /\ i' = i + 1
          /\ UNCHANGED pc
       \/ /\ page_log' = Append(page_log, <<VR_SINGLE_ALLOC_LIMIT, NULL>>)
          /\ heap' = StoreMem(heap, i, NULL)
          /\ oob' = (oob \/ i \notin Slots)
          /\ pc' = "exit_alloc"
          /\ UNCHANGED <<offset, i>>
    /\ UNCHANGED <<num_entries, entry_size, total_mem, num_parts, remainder,
                   table, ret, free_log, meta_allocs, last_op, readers>>

\* vr_btable_alloc, line 124 (and the skip of the block when num_parts = 0)
AllocFullDone ==
    /\ pc = "full"
    /\ num_parts = 0 \/ i >= num_parts
    /\ heap' = IF num_parts # 0
               THEN [heap EXCEPT !.vb_partitions = num_parts]
               ELSE heap
    /\ pc' = "remainder"
    /\ UNCHANGED <<locals, table, ret, provider, oob, last_op, readers>>

\* a remainder step without the "if (remainder)" of line 127
AllocRemainder_AlwaysRequests ==
    /\ pc = "remainder"
    /\ \/ /\ page_log' = Append(page_log, <<remainder, NewHandle(page_log)>>)
          /\ heap' = [StoreInfo(StoreMem(heap, i, NewHandle(page_log)), i,
                                remainder, offset)
                        EXCEPT !.vb_partitions = heap.vb_partitions + 1,
                               !.vb_entries = num_entries,
                               !.vb_esize = entry_size]
          /\ oob' = (oob \/ i \notin Slots)
          /\ ret' = table
          /\ pc' = "returned"
       \/ /\ page_log' = Append(page_log, <<remainder, NULL>>)
          /\ heap' = StoreMem(heap, i, NULL)
          /\ oob' = (oob \/ i \notin Slots)
          /\ pc' = "exit_alloc"
          /\ UNCHANGED ret
    /\ UNCHANGED <<locals, table, free_log, meta_allocs, last_op, readers>>

\* vr_btable_alloc, lines 127-139: the last, smaller chunk and the return
AllocRemainder ==
    /\ pc = "remainder"
    /\ \/ /\ remainder # 0
          /\ page_log' = Append(page_log, <<remainder, NewHandle(page_log)>>)
          /\ heap' = [StoreInfo(StoreMem(heap, i, NewHandle(page_log)), i,
                                remainder, offset)
                        EXCEPT !.vb_partitions = heap.vb_partitions + 1,
                               !.vb_entries = num_entries,
                               !.vb_esize = entry_size]
          /\ oob' = (oob \/ i \notin Slots)
          /\ ret' = table
          /\ pc' = "returned"
       \/ /\ remainder # 0
          /\ page_log' = Append(page_log, <<remainder, NULL>>)
          /\ heap' = StoreMem(heap, i, NULL)
          /\ oob' = (oob \/ i \notin Slots)
          /\ pc' = "exit_alloc"
          /\ UNCHANGED ret
       \/ /\ remainder = 0
          /\ heap' = [heap EXCEPT !.vb_entries = num_entries,
                                  !.vb_esize = entry_size]
          /\ ret' = table
          /\ pc' = "returned"
          /\ UNCHANGED <<page_log, oob>>
    /\ UNCHANGED <<locals, table, free_log, meta_allocs, last_op, readers>>

\* an exit_alloc that returns NULL without the call of vr_btable_free
AllocExit_NoRollback ==
    /\ pc = "exit_alloc"
    /\ ret' = NULL
    /\ pc' = "returned"
    /\ UNCHANGED <<locals, table, heap, provider, oob, last_op, readers>>

\* vr_btable_alloc, lines 141-143: exit_alloc
AllocExit ==
    /\ pc = "exit_alloc"
    /\ vr_btable_free(table)
    /\ ret' = NULL
    /\ pc' = "returned"
    /\ UNCHANGED <<locals, table, heap, page_log, meta_allocs, oob, last_op,
                   readers>>

\* a lookup that takes the slot it is asked for into use
GetPartition_ExtendsTable(idx) ==
    /\ pc = "returned"
    /\ ret # NULL
    /\ part_arg' = idx
    /\ part_res' = vr_btable_get_partition(idx)
    /\ heap' = IF idx \in Slots /\ idx >= heap.vb_partitions
               THEN [heap EXCEPT !.vb_partitions = idx + 1]
               ELSE heap
    /\ last_op' = "get_partition"
    /\ UNCHANGED <<pc, locals, table, ret, provider, oob, addr_arg, addr_res>>

\* the caller reads a partition descriptor of the table it holds
GetPartition(idx) ==
    /\ pc = "returned"
    /\ ret # NULL
    /\ part_arg' = idx
    /\ part_res' = vr_btable_get_partition(idx)
    /\ last_op' = "get_partition"
    /\ UNCHANGED <<pc, locals, table, heap, ret, provider, oob, addr_arg,
                   addr_res>>

\* the caller translates an offset on the table it holds
GetAddress(off) ==
    /\ pc = "returned"
    /\ ret # NULL
    /\ addr_arg' = off
    /\ addr_res' = vr_btable_get_address(heap, off)
    /\ last_op' = "get_address"
    /\ UNCHANGED <<pc, locals, table, heap, ret, provider, oob, part_arg,
                   part_res>>

\* the caller destroys what vr_btable_alloc returned (a table or NULL)
Free ==
    /\ pc = "returned"
    /\ vr_btable_free(ret)
    /\ pc' = "freed"
    /\ last_op' = "free"
    /\ UNCHANGED <<locals, table, heap, ret, page_log, meta_allocs, oob,
                   readers>>

Next ==
    \/ \E n \in 0 .. MaxEntries, s \in 0 .. MaxEntrySize : AllocEnter(n, s)
    \/ AllocPlan
    \/ AllocFull
    \/ AllocFullDone
    \/ AllocRemainder
    \/ AllocExit
    \/ \E idx \in 0 .. (VR_MAX_BTABLE_ENTRIES + 1) : GetPartition(idx)
    \/ \E off \in 0 .. (UINT_MOD - 1) : GetAddress(off)
    \/ Free

Spec == Init /\ [][Next]_vars

\* ------------------------------------------------------- reading the state

\* vr_btable_alloc has returned a table, which the caller still holds
TableReturned == pc = "returned" /\ ret # NULL

\* vr_btable_alloc has returned NULL
CreateFailed == pc \in {"returned", "freed"} /\ last_op # "none" /\ ret = NULL

\* the sizes of partitions k .. vb_partitions-1, added up
RECURSIVE SizesFrom(_, _)
SizesFrom(t, k) ==
    IF k >= t.vb_partitions \/ k \notin Slots
    THEN 0
    ELSE t.vb_table_info[k].vb_mem_size + SizesFrom(t, k + 1)

PartitionSum(t) == SizesFrom(t, 0)

\* the block requests of the call so far, and whether the last one failed
Requests == Len(page_log)

LastRequestFailed == Requests > 0 /\ page_log[Requests][2] = NULL

\* the vr_page_free calls and the vr_free calls of a log
PageFrees(log) == {k \in 1 .. Len(log) : log[k].fn = "vr_page_free"}

MetaFrees(log) == {k \in 1 .. Len(log) : log[k].fn = "vr_free"}

\* blocks the page allocator handed out and has not been given back
LiveBlocks ==
    {page_log[k][2] : k \in SuccessfulAllocs(page_log)}
        \ {free_log[k].ptr : k \in PageFrees(free_log)}

\* how often block h was passed to vr_page_free in a log, and with which sizes
TimesFreed(log, h) == Cardinality({k \in PageFrees(log) : log[k].ptr = h})

FreedSizes(log, h) == {log[k].size : k \in {j \in PageFrees(log) : log[j].ptr = h}}

\* ------------------------------------------------------------------ claims

\* C1: for every create(entry_count, entry_size) that returns a table, the
\* sizes of partitions 0 .. partition_count-1 add up to the mathematical
\* product entry_count * entry_size.  The code multiplies in unsigned int
\* (line 91), so the sum is the product reduced modulo 2^UINT_BITS.
C1_SumIsProduct ==
    TableReturned => PartitionSum(heap) = num_entries * entry_size

\* C2: in every table returned by create, partition 0 has logical offset 0
\* and each later partition starts where the one before it ends.
C2_Contiguous ==
    TableReturned =>
        /\ heap.vb_table_info[0].vb_offset = 0
        /\ \A k \in Slots :
              (0 < k /\ k < heap.vb_partitions) =>
                  heap.vb_table_info[k].vb_offset =
                      heap.vb_table_info[k - 1].vb_offset
                          + heap.vb_table_info[k - 1].vb_mem_size

\* C2 witness: a returned table of two full chunks and a smaller last one
C2_Witness ==
    /\ TableReturned
    /\ heap.vb_partitions = 3
    /\ heap.vb_table_info[2].vb_mem_size < VR_SINGLE_ALLOC_LIMIT
    /\ heap.vb_table_info[2].vb_offset = 2 * VR_SINGLE_ALLOC_LIMIT

\* C3: when the k-th block request of a create call fails, create returns
\* failure, each of the k-1 blocks obtained before is freed exactly once
\* (with its size), nothing else is freed, the table metadata is released,
\* and successful allocations and frees balance.
C3_RollbackOnFailure ==
    (pc \in {"returned", "freed"} /\ LastRequestFailed) =>
        /\ ret = NULL
        /\ \A k \in 1 .. (Requests - 1) :
              /\ page_log[k][2] # NULL
              /\ TimesFreed(free_log, page_log[k][2]) = 1
              /\ FreedSizes(free_log, page_log[k][2]) = {page_log[k][1]}
        /\ Cardinality(PageFrees(free_log)) = Requests - 1
        /\ meta_allocs = 1
        /\ Cardinality(MetaFrees(free_log)) = 1
        /\ Cardinality(SuccessfulAllocs(page_log))
              = Cardinality(PageFrees(free_log))

\* C3 witness: the third request (the remainder, after two full chunks) failed
C3_Witness ==
    /\ pc = "returned"
    /\ Requests = 3
    /\ LastRequestFailed
    /\ remainder # 0
    /\ Cardinality(PageFrees(free_log)) = 2

\* C4: every failing path of create leaves nothing allocated: when NULL is
\* returned, every block and the table metadata obtained during the call
\* have been released.  Lines 103 and 112 return NULL with the struct of
\* line 96 still allocated.
C4_FailureLeavesNothing ==
    CreateFailed =>
        /\ LiveBlocks = {}
        /\ Cardinality(MetaFrees(free_log)) = meta_allocs

\* the partitions the plan of lines 100-101 asks for
PlannedPartitions == num_parts + (IF remainder # 0 THEN 1 ELSE 0)

\* C5: if the plan needs more than MAX_PARTITIONS partitions, create fails
\* and the metadata allocated earlier in the call is released.  Line 103
\* returns without vr_free(table).
C5_TooManyReleasesMetadata ==
    (pc \in {"returned", "freed"} /\ PlannedPartitions > VR_MAX_BTABLE_ENTRIES) =>
        /\ ret = NULL
        /\ Cardinality(MetaFrees(free_log)) = meta_allocs

\* C6: whenever the mathematical product entry_count * entry_size exceeds
\* KNOWN_BIG_MEM_LIMIT, create fails and requests no block.  The product of
\* line 91 wraps, and the wrapped value passes the test of line 93.
C6_TooLargeFails ==
    (pc \in {"returned", "freed"}
        /\ num_entries * entry_size > VR_KNOWN_BIG_MEM_LIMIT) =>
        /\ ret = NULL
        /\ page_log = << >>

\* C7: if a create call needs more than one partition (its size is above
\* SINGLE_ALLOC_LIMIT) and SINGLE_ALLOC_LIMIT is not a multiple of
\* entry_size, create fails without any block request.
C7_MisalignedFailsEarly ==
    (pc \in {"returned", "freed"}
        /\ num_entries * entry_size > VR_SINGLE_ALLOC_LIMIT
        /\ VR_SINGLE_ALLOC_LIMIT % entry_size # 0) =>
        /\ ret = NULL
        /\ page_log = << >>

\* what lines 105-113 do decide: a call whose own plan has a full chunk and
\* whose entry size does not divide the chunk size requests nothing
MisalignedPlanRequestsNothing ==
    (pc \in {"returned", "freed"} /\ table # NULL /\ num_parts # 0
        /\ VR_SINGLE_ALLOC_LIMIT % entry_size # 0) =>
        /\ ret = NULL
        /\ page_log = << >>

\* the partitions of table t whose range holds offset off
Holding(t, off) ==
    {k \in Slots : /\ k < t.vb_partitions
                   /\ t.vb_table_info[k].vb_offset <= off
                   /\ off < t.vb_table_info[k].vb_offset
                              + t.vb_table_info[k].vb_mem_size}

\* C8: on a returned table, address_of gives, for every offset below
\* entry_count * entry_size, the block of the one partition whose range
\* holds the offset, plus the distance into it, and None for every offset
\* from entry_count * entry_size on.
C8_AddressOf ==
    (TableReturned /\ last_op = "get_address") =>
        IF addr_arg < heap.vb_entries * heap.vb_esize
        THEN /\ Cardinality(Holding(heap, addr_arg)) = 1
             /\ \A k \in Holding(heap, addr_arg) :
                   /\ heap.vb_mem[k] # NULL
                   /\ addr_res = [block |-> heap.vb_mem[k],
                                  off |-> addr_arg - heap.vb_table_info[k].vb_offset]
        ELSE addr_res = NullAddr

\* the same with the size the table really has (the sum of its partitions)
AddressOfWithinPartitions ==
    (TableReturned /\ last_op = "get_address") =>
        IF addr_arg < PartitionSum(heap)
        THEN /\ Cardinality(Holding(heap, addr_arg)) = 1
             /\ \A k \in Holding(heap, addr_arg) :
                   /\ heap.vb_mem[k] # NULL
                   /\ addr_res = [block |-> heap.vb_mem[k],
                                  off |-> addr_arg - heap.vb_table_info[k].vb_offset]
        ELSE addr_res = NullAddr

\* the sizes of the first k block requests, added up
RECURSIVE RequestedBefore(_, _)
RequestedBefore(log, k) ==
    IF k <= 1 THEN 0 ELSE log[k - 1][1] + RequestedBefore(log, k - 1)

\* C9: on a returned table, partition_at gives None for an index at or
\* above MAX_PARTITIONS, the descriptor with the offset and size recorded at
\* creation for an index below partition_count, and a descriptor of size 0
\* for an index in between.
C9_PartitionAt ==
    (TableReturned /\ last_op = "get_partition") =>
        /\ part_arg >= VR_MAX_BTABLE_ENTRIES => part_res.null
        /\ part_arg < VR_MAX_BTABLE_ENTRIES =>
              /\ ~part_res.null
              /\ part_res.slot = part_arg
        /\ part_arg < heap.vb_partitions =>
              /\ heap.vb_table_info[part_res.slot].vb_mem_size
                    = page_log[part_arg + 1][1]
              /\ heap.vb_table_info[part_res.slot].vb_offset
                    = RequestedBefore(page_log, part_arg + 1)
        /\ (heap.vb_partitions <= part_arg /\ part_arg < VR_MAX_BTABLE_ENTRIES) =>
              heap.vb_table_info[part_res.slot].vb_mem_size = 0

\* C9 witnesses: a used slot, an unused slot and an index past the capacity
\* were each looked up on a table that has partitions
C9_Witness ==
    /\ TableReturned
    /\ last_op = "get_partition"
    /\ heap.vb_partitions = 2
    /\ part_arg = 1
    /\ ~part_res.null
    /\ heap.vb_table_info[part_res.slot].vb_offset = VR_SINGLE_ALLOC_LIMIT

\* the blocks a table holds, and the size(s) block h was requested with
HeldBlocks(t) == {t.vb_mem[k] : k \in Slots} \ {NULL}

AllocatedSizes(h) ==
    {page_log[k][1] : k \in {j \in 1 .. Len(page_log) : page_log[j][2] = h}}

\* C10: destroy on a returned table frees every block the table holds
\* exactly once, with the size the block was allocated with, and then
\* releases the metadata once; destroy on NULL calls neither allocator.
C10_Destroy ==
    [][ (pc = "returned" /\ pc' = "freed") =>
          IF ret = NULL
          THEN UNCHANGED provider
          ELSE /\ HeldBlocks(heap) = LiveBlocks
               /\ \A h \in HeldBlocks(heap) :
                     /\ TimesFreed(free_log', h) = 1
                     /\ FreedSizes(free_log', h) = AllocatedSizes(h)
               /\ Cardinality(PageFrees(free_log'))
                     = Cardinality(HeldBlocks(heap))
               /\ Cardinality(MetaFrees(free_log')) = 1
               /\ free_log'[Len(free_log')].fn = "vr_free"
               /\ free_log'[Len(free_log')].ptr = ret
               /\ UNCHANGED <<page_log, meta_allocs>> ]_vars

\* C10 witness: a table of three blocks, the last one smaller, was destroyed
C10_Witness ==
    /\ pc = "freed"
    /\ ret # NULL
    /\ heap.vb_partitions = 3
    /\ remainder # 0
    /\ Len(free_log) = 4

\* C11: the total_size that create tests against KNOWN_BIG_MEM_LIMIT and
\* splits into partitions is the mathematical product entry_count *
\* entry_size, never the product reduced modulo 2^UINT_BITS.  Line 91
\* multiplies two unsigned ints before the result is widened.
C11_TotalIsProduct ==
    pc # "idle" => total_mem = num_entries * entry_size

\* C12: every returned table has partition_count <= MAX_PARTITIONS, and no
\* step of a create call, successful or failing, writes a block handle or a
\* descriptor to a slot index >= MAX_PARTITIONS.
C12_WithinCapacity ==
    /\ ~oob
    /\ pc \in {"full", "remainder", "exit_alloc"} =>
          PlannedPartitions <= VR_MAX_BTABLE_ENTRIES
    /\ pc = "full" /\ i < num_parts => i \in Slots
    /\ pc = "remainder" /\ remainder # 0 => i \in Slots
    /\ TableReturned => heap.vb_partitions <= VR_MAX_BTABLE_ENTRIES

\* C12 witness: a table that uses every slot, the last one for the remainder
C12_Witness ==
    /\ TableReturned
    /\ heap.vb_partitions = VR_MAX_BTABLE_ENTRIES
    /\ heap.vb_mem[VR_MAX_BTABLE_ENTRIES - 1] # NULL
    /\ remainder # 0

\* C13: a successful create with total_size = entry_count * entry_size gives
\* exactly total_size / SINGLE_ALLOC_LIMIT partitions of size
\* SINGLE_ALLOC_LIMIT, followed by one of size total_size %
\* SINGLE_ALLOC_LIMIT when that is not zero.
C13_PartitionPlan ==
    TableReturned =>
        LET total_size == num_entries * entry_size
            full == total_size \div VR_SINGLE_ALLOC_LIMIT
            rest == total_size % VR_SINGLE_ALLOC_LIMIT
        IN /\ heap.vb_partitions = full + (IF rest # 0 THEN 1 ELSE 0)
           /\ \A k \in Slots :
                 /\ k < full => heap.vb_table_info[k].vb_mem_size
                                    = VR_SINGLE_ALLOC_LIMIT
                 /\ (k = full /\ rest # 0) =>
                        heap.vb_table_info[k].vb_mem_size = rest

\* the same plan, taken from the total_mem the call computed
PartitionPlanOfTotalMem ==
    TableReturned =>
        LET full == total_mem \div VR_SINGLE_ALLOC_LIMIT
            rest == total_mem % VR_SINGLE_ALLOC_LIMIT
        IN /\ heap.vb_partitions = full + (IF rest # 0 THEN 1 ELSE 0)
           /\ \A k \in Slots :
                 /\ k < full => heap.vb_table_info[k].vb_mem_size
                                    = VR_SINGLE_ALLOC_LIMIT
                 /\ (k = full /\ rest # 0) =>
                        heap.vb_table_info[k].vb_mem_size = rest

\* the first and the last byte of entry e, as the unsigned int offsets
\* vr_btable_get_address takes
FirstByte(e) == (e * entry_size) % UINT_MOD

LastByte(e) == ((e + 1) * entry_size - 1) % UINT_MOD

DirectAddress(t, off) ==
    LET index == off \div VR_SINGLE_ALLOC_LIMIT
        local == off % VR_SINGLE_ALLOC_LIMIT
    IN IF index >= t.vb_partitions
       THEN NullAddr
       ELSE IF local >= t.vb_table_info[index].vb_mem_size
            THEN NullAddr
            ELSE [block |-> t.vb_mem[index], off |-> local]

\* C15: on every returned table and for every offset, the linear scan of
\* address_of gives what the direct computation gives.
C15_ScanIsDirect ==
    (TableReturned /\ last_op = "get_address") =>
        addr_res = DirectAddress(heap, addr_arg)

\* C15 witness: an offset in the second partition, and one past the end of
\* a short last partition, were translated
C15_Witness ==
    /\ TableReturned
    /\ last_op = "get_address"
    /\ heap.vb_partitions = 2
    /\ heap.vb_table_info[1].vb_mem_size < VR_SINGLE_ALLOC_LIMIT
    /\ addr_arg = VR_SINGLE_ALLOC_LIMIT
    /\ addr_res = [block |-> heap.vb_mem[1], off |-> 0]

C17_NoRequestAfterFailure ==
    [][ LastRequestFailed => page_log' = page_log ]_vars

\* C17 witness: the first of three planned requests failed and the call
\* returned with that one request made
C17_Witness ==
    /\ pc = "returned"
    /\ PlannedPartitions = 3
    /\ remainder # 0
    /\ Requests = 1
    /\ LastRequestFailed

\* C18, as stated: create with entry_count = 0 or entry_size = 0 succeeds.
\* The struct of line 96 is allocated first, and that allocation can fail.
C18_ZeroSizeSucceeds ==
    (pc \in {"returned", "freed"} /\ (num_entries = 0 \/ entry_size = 0)) =>
        ret # NULL

\* C18, amended: create with entry_count = 0 or entry_size = 0 makes no
\* block request; unless the allocation of the table metadata fails (then
\* it returns failure with nothing allocated), it returns a table with
\* partition_count = 0, for which address_of gives None for every offset
\* and destroy releases the metadata and nothing else.
C18_ZeroSize ==
    (pc \in {"returned", "freed"} /\ (num_entries = 0 \/ entry_size = 0)) =>
        /\ page_log = << >>
        /\ meta_allocs = 0 => (ret = NULL /\ free_log = << >>)
        /\ meta_allocs # 0 =>
              /\ ret # NULL
              /\ heap.vb_partitions = 0
              /\ \A off \in 0 .. (UINT_MOD - 1) :
                    vr_btable_get_address(heap, off) = NullAddr
              /\ last_op = "get_address" => addr_res = NullAddr
              /\ pc = "returned" => free_log = << >>
              /\ pc = "freed" =>
                    free_log = << [fn |-> "vr_free", ptr |-> ret, size |-> 0] >>

\* C18 witness: a table of entries of size 0 was created, looked into and
\* destroyed
C18_Witness ==
    /\ pc = "freed"
    /\ num_entries > 0
    /\ entry_size = 0
    /\ ret # NULL
    /\ addr_arg = 1
    /\ addr_res = NullAddr
    /\ Len(free_log) = 1

\* C19: in every returned table the slots with a block handle are exactly
\* 0 .. partition_count-1, and every slot from partition_count on has no
\* handle and size 0; when the rollback of a failing create runs, every
\* slot with a handle has the size its block was allocated with.
C19_SlotsMatchCount ==
    /\ TableReturned =>
          \A k \in Slots :
              /\ heap.vb_mem[k] # NULL <=> k < heap.vb_partitions
              /\ k >= heap.vb_partitions =>
                    heap.vb_table_info[k].vb_mem_size = 0
    /\ pc = "exit_alloc" =>
          \A k \in Slots :
              heap.vb_mem[k] # NULL =>
                  AllocatedSizes(heap.vb_mem[k])
                      = {heap.vb_table_info[k].vb_mem_size}

\* C19 witness: the rollback is about to run on a table that holds two blocks
C19_Witness ==
    /\ pc = "exit_alloc"
    /\ Cardinality(HeldBlocks(heap)) = 2
    /\ heap.vb_mem[2] = NULL
    /\ heap.vb_table_info[1].vb_mem_size = VR_SINGLE_ALLOC_LIMIT

=============================================================================
